---- MODULE Spec2Model ----
(***************************************************************************)
(* Model of the `pre-commit` command of odev-plugin-project                *)
(* (src/commands/pre-commit.py): PreCommit.__init__ and PreCommit.run with *)
(* its helpers _is_fresh_install, _copy_config, _install_hooks,            *)
(* _commit_message and _commit_changes.                                    *)
(*                                                                         *)
(* The collaborators the command calls (GitConnector.clone, the version    *)
(* scanner, Stash, copier's run_copy / run_update, `pre-commit install`,   *)
(* git add / git commit) are the environment: each call is recorded in     *)
(* `calls` and its outcome (return or raise, and what it leaves on disk)   *)
(* is chosen nondeterministically.                                         *)
(*                                                                         *)
(* Text: a Python str is modelled as the sequence of its code points and a *)
(* bytes object as the sequence of its bytes; T("...") is the text of a    *)
(* literal.  A multi-line text is the sequence of its lines.               *)
(***************************************************************************)
EXTENDS Integers, Sequences, FiniteSets, TLC

VARIABLES
    args,       \* self.args: [database, repository], None when not supplied
    database,   \* self._database: [name, version, repository]
    logLevel,   \* odev.common.logging.LOG_LEVEL
    repository, \* self._repository.name, None before construction
    exists,     \* self._repository.exists (the local clone is there)
    answers,    \* (self._repository.path / COPIER_ANSWERS_FILE).is_file()
    version,    \* self.version
    pc,         \* position in argument validation / __init__ / run
    stash,      \* the Stash scope of _copy_config: "none", "held" (inside the
                \* with-block), "released" (the block was left, __exit__ has run)
    pending,    \* exception raised inside the `with Stash` body, not yet propagated
    calls,      \* collaborator calls made so far, in order
    evals,      \* successive results of _is_fresh_install() in this run
    error,      \* the exception that ended the command, NoError otherwise
    logged,     \* the closing logger.info line, empty before it
    start       \* [exists, answers] as they were when the command started

vars == <<args, database, logLevel, repository, exists, answers, version, pc,
          stash, pending, calls, evals, error, logged, start>>

----------------------------------------------------------------------------
(* Texts: a Python str is the sequence of its code points, a bytes object   *)
(* the sequence of its bytes.  T turns a literal of the model into a text.  *)

\* The printable ASCII characters 32..95 and 97..126 (96, the backquote,
\* cannot be written in a literal here and is given by its code point).
AsciiLow == " !\"#$%&'()*+,-./0123456789:;<=>?@ABCDEFGHIJKLMNOPQRSTUVWXYZ[\\]^_"
AsciiHigh == "abcdefghijklmnopqrstuvwxyz{|}~"

Ord(c) ==
    CASE c = "\n" -> 10
      [] c = "\t" -> 9
      [] c = "\r" -> 13
      [] \E i \in 1..Len(AsciiLow) : SubSeq(AsciiLow, i, i) = c ->
             31 + (CHOOSE i \in 1..Len(AsciiLow) : SubSeq(AsciiLow, i, i) = c)
      [] OTHER ->
             96 + (CHOOSE i \in 1..Len(AsciiHigh) : SubSeq(AsciiHigh, i, i) = c)

T(s) == [i \in 1..Len(s) |-> Ord(SubSeq(s, i, i))]

Backquote == <<96>>

\* Lowercase hexadecimal digits of n, at least `width` of them.
RECURSIVE Hex(_, _)
Hex(n, width) ==
    IF n < 16 /\ width <= 1 THEN T(SubSeq("0123456789abcdef", n + 1, n + 1))
    ELSE Hex(n \div 16, width - 1) \o T(SubSeq("0123456789abcdef", (n % 16) + 1, (n % 16) + 1))

\* Code points str.isspace() holds for.
IsSpace(c) ==
    \/ c \in 9..13 \/ c \in 28..32 \/ c \in {133, 160, 5760, 8232, 8233, 8239, 8287, 12288}
    \/ c \in 8192..8202

\* The code points str.isprintable() rejects, as inclusive ranges: the
\* categories Cc, Cf, Cs, Co, Cn, Zl, Zp and Zs other than the space, of the
\* Unicode 14.0.0 database (CPython 3.11).
NonPrintableRanges == <<
    <<0, 31>>, <<127, 160>>, <<173, 173>>, <<888, 889>>, <<896, 899>>,
    <<907, 907>>, <<909, 909>>, <<930, 930>>, <<1328, 1328>>, <<1367, 1368>>,
    <<1419, 1420>>, <<1424, 1424>>, <<1480, 1487>>, <<1515, 1518>>, <<1525, 1541>>,
    <<1564, 1564>>, <<1757, 1757>>, <<1806, 1807>>, <<1867, 1868>>, <<1970, 1983>>,
    <<2043, 2044>>, <<2094, 2095>>, <<2111, 2111>>, <<2140, 2141>>, <<2143, 2143>>,
    <<2155, 2159>>, <<2191, 2199>>, <<2274, 2274>>, <<2436, 2436>>, <<2445, 2446>>,
    <<2449, 2450>>, <<2473, 2473>>, <<2481, 2481>>, <<2483, 2485>>, <<2490, 2491>>,
    <<2501, 2502>>, <<2505, 2506>>, <<2511, 2518>>, <<2520, 2523>>, <<2526, 2526>>,
    <<2532, 2533>>, <<2559, 2560>>, <<2564, 2564>>, <<2571, 2574>>, <<2577, 2578>>,
    <<2601, 2601>>, <<2609, 2609>>, <<2612, 2612>>, <<2615, 2615>>, <<2618, 2619>>,
    <<2621, 2621>>, <<2627, 2630>>, <<2633, 2634>>, <<2638, 2640>>, <<2642, 2648>>,
    <<2653, 2653>>, <<2655, 2661>>, <<2679, 2688>>, <<2692, 2692>>, <<2702, 2702>>,
    <<2706, 2706>>, <<2729, 2729>>, <<2737, 2737>>, <<2740, 2740>>, <<2746, 2747>>,
    <<2758, 2758>>, <<2762, 2762>>, <<2766, 2767>>, <<2769, 2783>>, <<2788, 2789>>,
    <<2802, 2808>>, <<2816, 2816>>, <<2820, 2820>>, <<2829, 2830>>, <<2833, 2834>>,
    <<2857, 2857>>, <<2865, 2865>>, <<2868, 2868>>, <<2874, 2875>>, <<2885, 2886>>,
    <<2889, 2890>>, <<2894, 2900>>, <<2904, 2907>>, <<2910, 2910>>, <<2916, 2917>>,
    <<2936, 2945>>, <<2948, 2948>>, <<2955, 2957>>, <<2961, 2961>>, <<2966, 2968>>,
    <<2971, 2971>>, <<2973, 2973>>, <<2976, 2978>>, <<2981, 2983>>, <<2987, 2989>>,
    <<3002, 3005>>, <<3011, 3013>>, <<3017, 3017>>, <<3022, 3023>>, <<3025, 3030>>,
    <<3032, 3045>>, <<3067, 3071>>, <<3085, 3085>>, <<3089, 3089>>, <<3113, 3113>>,
    <<3130, 3131>>, <<3141, 3141>>, <<3145, 3145>>, <<3150, 3156>>, <<3159, 3159>>,
    <<3163, 3164>>, <<3166, 3167>>, <<3172, 3173>>, <<3184, 3190>>, <<3213, 3213>>,
    <<3217, 3217>>, <<3241, 3241>>, <<3252, 3252>>, <<3258, 3259>>, <<3269, 3269>>,
    <<3273, 3273>>, <<3278, 3284>>, <<3287, 3292>>, <<3295, 3295>>, <<3300, 3301>>,
    <<3312, 3312>>, <<3315, 3327>>, <<3341, 3341>>, <<3345, 3345>>, <<3397, 3397>>,
    <<3401, 3401>>, <<3408, 3411>>, <<3428, 3429>>, <<3456, 3456>>, <<3460, 3460>>,
    <<3479, 3481>>, <<3506, 3506>>, <<3516, 3516>>, <<3518, 3519>>, <<3527, 3529>>,
    <<3531, 3534>>, <<3541, 3541>>, <<3543, 3543>>, <<3552, 3557>>, <<3568, 3569>>,
    <<3573, 3584>>, <<3643, 3646>>, <<3676, 3712>>, <<3715, 3715>>, <<3717, 3717>>,
    <<3723, 3723>>, <<3748, 3748>>, <<3750, 3750>>, <<3774, 3775>>, <<3781, 3781>>,
    <<3783, 3783>>, <<3790, 3791>>, <<3802, 3803>>, <<3808, 3839>>, <<3912, 3912>>,
    <<3949, 3952>>, <<3992, 3992>>, <<4029, 4029>>, <<4045, 4045>>, <<4059, 4095>>,
    <<4294, 4294>>, <<4296, 4300>>, <<4302, 4303>>, <<4681, 4681>>, <<4686, 4687>>,
    <<4695, 4695>>, <<4697, 4697>>, <<4702, 4703>>, <<4745, 4745>>, <<4750, 4751>>,
    <<4785, 4785>>, <<4790, 4791>>, <<4799, 4799>>, <<4801, 4801>>, <<4806, 4807>>,
    <<4823, 4823>>, <<4881, 4881>>, <<4886, 4887>>, <<4955, 4956>>, <<4989, 4991>>,
    <<5018, 5023>>, <<5110, 5111>>, <<5118, 5119>>, <<5760, 5760>>, <<5789, 5791>>,
    <<5881, 5887>>, <<5910, 5918>>, <<5943, 5951>>, <<5972, 5983>>, <<5997, 5997>>,
    <<6001, 6001>>, <<6004, 6015>>, <<6110, 6111>>, <<6122, 6127>>, <<6138, 6143>>,
    <<6158, 6158>>, <<6170, 6175>>, <<6265, 6271>>, <<6315, 6319>>, <<6390, 6399>>,
    <<6431, 6431>>, <<6444, 6447>>, <<6460, 6463>>, <<6465, 6467>>, <<6510, 6511>>,
    <<6517, 6527>>, <<6572, 6575>>, <<6602, 6607>>, <<6619, 6621>>, <<6684, 6685>>,
    <<6751, 6751>>, <<6781, 6782>>, <<6794, 6799>>, <<6810, 6815>>, <<6830, 6831>>,
    <<6863, 6911>>, <<6989, 6991>>, <<7039, 7039>>, <<7156, 7163>>, <<7224, 7226>>,
    <<7242, 7244>>, <<7305, 7311>>, <<7355, 7356>>, <<7368, 7375>>, <<7419, 7423>>,
    <<7958, 7959>>, <<7966, 7967>>, <<8006, 8007>>, <<8014, 8015>>, <<8024, 8024>>,
    <<8026, 8026>>, <<8028, 8028>>, <<8030, 8030>>, <<8062, 8063>>, <<8117, 8117>>,
    <<8133, 8133>>, <<8148, 8149>>, <<8156, 8156>>, <<8176, 8177>>, <<8181, 8181>>,
    <<8191, 8207>>, <<8232, 8239>>, <<8287, 8303>>, <<8306, 8307>>, <<8335, 8335>>,
    <<8349, 8351>>, <<8385, 8399>>, <<8433, 8447>>, <<8588, 8591>>, <<9255, 9279>>,
    <<9291, 9311>>, <<11124, 11125>>, <<11158, 11158>>, <<11508, 11512>>, <<11558, 11558>>,
    <<11560, 11564>>, <<11566, 11567>>, <<11624, 11630>>, <<11633, 11646>>, <<11671, 11679>>,
    <<11687, 11687>>, <<11695, 11695>>, <<11703, 11703>>, <<11711, 11711>>, <<11719, 11719>>,
    <<11727, 11727>>, <<11735, 11735>>, <<11743, 11743>>, <<11870, 11903>>, <<11930, 11930>>,
    <<12020, 12031>>, <<12246, 12271>>, <<12284, 12288>>, <<12352, 12352>>, <<12439, 12440>>,
    <<12544, 12548>>, <<12592, 12592>>, <<12687, 12687>>, <<12772, 12783>>, <<12831, 12831>>,
    <<42125, 42127>>, <<42183, 42191>>, <<42540, 42559>>, <<42744, 42751>>, <<42955, 42959>>,
    <<42962, 42962>>, <<42964, 42964>>, <<42970, 42993>>, <<43053, 43055>>, <<43066, 43071>>,
    <<43128, 43135>>, <<43206, 43213>>, <<43226, 43231>>, <<43348, 43358>>, <<43389, 43391>>,
    <<43470, 43470>>, <<43482, 43485>>, <<43519, 43519>>, <<43575, 43583>>, <<43598, 43599>>,
    <<43610, 43611>>, <<43715, 43738>>, <<43767, 43776>>, <<43783, 43784>>, <<43791, 43792>>,
    <<43799, 43807>>, <<43815, 43815>>, <<43823, 43823>>, <<43884, 43887>>, <<44014, 44015>>,
    <<44026, 44031>>, <<55204, 55215>>, <<55239, 55242>>, <<55292, 63743>>, <<64110, 64111>>,
    <<64218, 64255>>, <<64263, 64274>>, <<64280, 64284>>, <<64311, 64311>>, <<64317, 64317>>,
    <<64319, 64319>>, <<64322, 64322>>, <<64325, 64325>>, <<64451, 64466>>, <<64912, 64913>>,
    <<64968, 64974>>, <<64976, 65007>>, <<65050, 65055>>, <<65107, 65107>>, <<65127, 65127>>,
    <<65132, 65135>>, <<65141, 65141>>, <<65277, 65280>>, <<65471, 65473>>, <<65480, 65481>>,
    <<65488, 65489>>, <<65496, 65497>>, <<65501, 65503>>, <<65511, 65511>>, <<65519, 65531>>,
    <<65534, 65535>>, <<65548, 65548>>, <<65575, 65575>>, <<65595, 65595>>, <<65598, 65598>>,
    <<65614, 65615>>, <<65630, 65663>>, <<65787, 65791>>, <<65795, 65798>>, <<65844, 65846>>,
    <<65935, 65935>>, <<65949, 65951>>, <<65953, 65999>>, <<66046, 66175>>, <<66205, 66207>>,
    <<66257, 66271>>, <<66300, 66303>>, <<66340, 66348>>, <<66379, 66383>>, <<66427, 66431>>,
    <<66462, 66462>>, <<66500, 66503>>, <<66518, 66559>>, <<66718, 66719>>, <<66730, 66735>>,
    <<66772, 66775>>, <<66812, 66815>>, <<66856, 66863>>, <<66916, 66926>>, <<66939, 66939>>,
    <<66955, 66955>>, <<66963, 66963>>, <<66966, 66966>>, <<66978, 66978>>, <<66994, 66994>>,
    <<67002, 67002>>, <<67005, 67071>>, <<67383, 67391>>, <<67414, 67423>>, <<67432, 67455>>,
    <<67462, 67462>>, <<67505, 67505>>, <<67515, 67583>>, <<67590, 67591>>, <<67593, 67593>>,
    <<67638, 67638>>, <<67641, 67643>>, <<67645, 67646>>, <<67670, 67670>>, <<67743, 67750>>,
    <<67760, 67807>>, <<67827, 67827>>, <<67830, 67834>>, <<67868, 67870>>, <<67898, 67902>>,
    <<67904, 67967>>, <<68024, 68027>>, <<68048, 68049>>, <<68100, 68100>>, <<68103, 68107>>,
    <<68116, 68116>>, <<68120, 68120>>, <<68150, 68151>>, <<68155, 68158>>, <<68169, 68175>>,
    <<68185, 68191>>, <<68256, 68287>>, <<68327, 68330>>, <<68343, 68351>>, <<68406, 68408>>,
    <<68438, 68439>>, <<68467, 68471>>, <<68498, 68504>>, <<68509, 68520>>, <<68528, 68607>>,
    <<68681, 68735>>, <<68787, 68799>>, <<68851, 68857>>, <<68904, 68911>>, <<68922, 69215>>,
    <<69247, 69247>>, <<69290, 69290>>, <<69294, 69295>>, <<69298, 69375>>, <<69416, 69423>>,
    <<69466, 69487>>, <<69514, 69551>>, <<69580, 69599>>, <<69623, 69631>>, <<69710, 69713>>,
    <<69750, 69758>>, <<69821, 69821>>, <<69827, 69839>>, <<69865, 69871>>, <<69882, 69887>>,
    <<69941, 69941>>, <<69960, 69967>>, <<70007, 70015>>, <<70112, 70112>>, <<70133, 70143>>,
    <<70162, 70162>>, <<70207, 70271>>, <<70279, 70279>>, <<70281, 70281>>, <<70286, 70286>>,
    <<70302, 70302>>, <<70314, 70319>>, <<70379, 70383>>, <<70394, 70399>>, <<70404, 70404>>,
    <<70413, 70414>>, <<70417, 70418>>, <<70441, 70441>>, <<70449, 70449>>, <<70452, 70452>>,
    <<70458, 70458>>, <<70469, 70470>>, <<70473, 70474>>, <<70478, 70479>>, <<70481, 70486>>,
    <<70488, 70492>>, <<70500, 70501>>, <<70509, 70511>>, <<70517, 70655>>, <<70748, 70748>>,
    <<70754, 70783>>, <<70856, 70863>>, <<70874, 71039>>, <<71094, 71095>>, <<71134, 71167>>,
    <<71237, 71247>>, <<71258, 71263>>, <<71277, 71295>>, <<71354, 71359>>, <<71370, 71423>>,
    <<71451, 71452>>, <<71468, 71471>>, <<71495, 71679>>, <<71740, 71839>>, <<71923, 71934>>,
    <<71943, 71944>>, <<71946, 71947>>, <<71956, 71956>>, <<71959, 71959>>, <<71990, 71990>>,
    <<71993, 71994>>, <<72007, 72015>>, <<72026, 72095>>, <<72104, 72105>>, <<72152, 72153>>,
    <<72165, 72191>>, <<72264, 72271>>, <<72355, 72367>>, <<72441, 72703>>, <<72713, 72713>>,
    <<72759, 72759>>, <<72774, 72783>>, <<72813, 72815>>, <<72848, 72849>>, <<72872, 72872>>,
    <<72887, 72959>>, <<72967, 72967>>, <<72970, 72970>>, <<73015, 73017>>, <<73019, 73019>>,
    <<73022, 73022>>, <<73032, 73039>>, <<73050, 73055>>, <<73062, 73062>>, <<73065, 73065>>,
    <<73103, 73103>>, <<73106, 73106>>, <<73113, 73119>>, <<73130, 73439>>, <<73465, 73647>>,
    <<73649, 73663>>, <<73714, 73726>>, <<74650, 74751>>, <<74863, 74863>>, <<74869, 74879>>,
    <<75076, 77711>>, <<77811, 77823>>, <<78895, 82943>>, <<83527, 92159>>, <<92729, 92735>>,
    <<92767, 92767>>, <<92778, 92781>>, <<92863, 92863>>, <<92874, 92879>>, <<92910, 92911>>,
    <<92918, 92927>>, <<92998, 93007>>, <<93018, 93018>>, <<93026, 93026>>, <<93048, 93052>>,
    <<93072, 93759>>, <<93851, 93951>>, <<94027, 94030>>, <<94088, 94094>>, <<94112, 94175>>,
    <<94181, 94191>>, <<94194, 94207>>, <<100344, 100351>>, <<101590, 101631>>, <<101641, 110575>>,
    <<110580, 110580>>, <<110588, 110588>>, <<110591, 110591>>, <<110883, 110927>>, <<110931, 110947>>,
    <<110952, 110959>>, <<111356, 113663>>, <<113771, 113775>>, <<113789, 113791>>, <<113801, 113807>>,
    <<113818, 113819>>, <<113824, 118527>>, <<118574, 118575>>, <<118599, 118607>>, <<118724, 118783>>,
    <<119030, 119039>>, <<119079, 119080>>, <<119155, 119162>>, <<119275, 119295>>, <<119366, 119519>>,
    <<119540, 119551>>, <<119639, 119647>>, <<119673, 119807>>, <<119893, 119893>>, <<119965, 119965>>,
    <<119968, 119969>>, <<119971, 119972>>, <<119975, 119976>>, <<119981, 119981>>, <<119994, 119994>>,
    <<119996, 119996>>, <<120004, 120004>>, <<120070, 120070>>, <<120075, 120076>>, <<120085, 120085>>,
    <<120093, 120093>>, <<120122, 120122>>, <<120127, 120127>>, <<120133, 120133>>, <<120135, 120137>>,
    <<120145, 120145>>, <<120486, 120487>>, <<120780, 120781>>, <<121484, 121498>>, <<121504, 121504>>,
    <<121520, 122623>>, <<122655, 122879>>, <<122887, 122887>>, <<122905, 122906>>, <<122914, 122914>>,
    <<122917, 122917>>, <<122923, 123135>>, <<123181, 123183>>, <<123198, 123199>>, <<123210, 123213>>,
    <<123216, 123535>>, <<123567, 123583>>, <<123642, 123646>>, <<123648, 124895>>, <<124903, 124903>>,
    <<124908, 124908>>, <<124911, 124911>>, <<124927, 124927>>, <<125125, 125126>>, <<125143, 125183>>,
    <<125260, 125263>>, <<125274, 125277>>, <<125280, 126064>>, <<126133, 126208>>, <<126270, 126463>>,
    <<126468, 126468>>, <<126496, 126496>>, <<126499, 126499>>, <<126501, 126502>>, <<126504, 126504>>,
    <<126515, 126515>>, <<126520, 126520>>, <<126522, 126522>>, <<126524, 126529>>, <<126531, 126534>>,
    <<126536, 126536>>, <<126538, 126538>>, <<126540, 126540>>, <<126544, 126544>>, <<126547, 126547>>,
    <<126549, 126550>>, <<126552, 126552>>, <<126554, 126554>>, <<126556, 126556>>, <<126558, 126558>>,
    <<126560, 126560>>, <<126563, 126563>>, <<126565, 126566>>, <<126571, 126571>>, <<126579, 126579>>,
    <<126584, 126584>>, <<126589, 126589>>, <<126591, 126591>>, <<126602, 126602>>, <<126620, 126624>>,
    <<126628, 126628>>, <<126634, 126634>>, <<126652, 126703>>, <<126706, 126975>>, <<127020, 127023>>,
    <<127124, 127135>>, <<127151, 127152>>, <<127168, 127168>>, <<127184, 127184>>, <<127222, 127231>>,
    <<127406, 127461>>, <<127491, 127503>>, <<127548, 127551>>, <<127561, 127567>>, <<127570, 127583>>,
    <<127590, 127743>>, <<128728, 128732>>, <<128749, 128751>>, <<128765, 128767>>, <<128884, 128895>>,
    <<128985, 128991>>, <<129004, 129007>>, <<129009, 129023>>, <<129036, 129039>>, <<129096, 129103>>,
    <<129114, 129119>>, <<129160, 129167>>, <<129198, 129199>>, <<129202, 129279>>, <<129620, 129631>>,
    <<129646, 129647>>, <<129653, 129655>>, <<129661, 129663>>, <<129671, 129679>>, <<129709, 129711>>,
    <<129723, 129727>>, <<129734, 129743>>, <<129754, 129759>>, <<129768, 129775>>, <<129783, 129791>>,
    <<129939, 129939>>, <<129995, 130031>>, <<130042, 131071>>, <<173792, 173823>>, <<177977, 177983>>,
    <<178206, 178207>>, <<183970, 183983>>, <<191457, 194559>>, <<195102, 196607>>, <<201547, 917759>>,
    <<918000, 1114111>>
>>

\* repr() escapes c (when it is neither the quote nor the backslash).
NonPrintable(c) ==
    \E i \in 1..Len(NonPrintableRanges) :
        NonPrintableRanges[i][1] <= c /\ c <= NonPrintableRanges[i][2]

\* repr() of one character inside the quote `q`.
ReprChar(c, q) ==
    CASE c = q \/ c = 92 -> <<92, c>>
      [] c = 9 -> <<92, 116>>
      [] c = 10 -> <<92, 110>>
      [] c = 13 -> <<92, 114>>
      [] c < 32 \/ c = 127 -> <<92, 120>> \o Hex(c, 2)
      [] c < 127 -> <<c>>
      [] ~NonPrintable(c) -> <<c>>
      [] c <= 255 -> <<92, 120>> \o Hex(c, 2)
      [] c <= 65535 -> <<92, 117>> \o Hex(c, 4)
      [] OTHER -> <<92, 85>> \o Hex(c, 8)

RECURSIVE ReprBody(_, _)
ReprBody(s, q) ==
    IF s = <<>> THEN <<>> ELSE ReprChar(Head(s), q) \o ReprBody(Tail(s), q)

Has(s, c) == \E i \in 1..Len(s) : s[i] = c

\* Python's repr of a str, as used by {name!r} in the messages: double quotes
\* when the text holds an apostrophe and no double quote, escapes otherwise.
Repr(s) ==
    LET q == IF Has(s, 39) /\ ~Has(s, 34) THEN 34 ELSE 39
    IN <<q>> \o ReprBody(s, q) \o <<q>>

\* str.strip(): whitespace removed at both ends.
RECURSIVE Strip(_)
Strip(s) ==
    IF Len(s) > 0 /\ IsSpace(s[1]) THEN Strip(SubSeq(s, 2, Len(s)))
    ELSE IF Len(s) > 0 /\ IsSpace(s[Len(s)])
         THEN Strip(SubSeq(s, 1, Len(s) - 1))
    ELSE s

IsCont(bytes, i) == i <= Len(bytes) /\ bytes[i] \in 128..191

\* Length of the UTF-8 sequence that starts bytes[i], 0 when it is not one
\* (stray continuation byte, overlong form, surrogate, beyond U+10FFFF, cut short).
Utf8Len(bytes, i) ==
    LET b == bytes[i]
        second == IF i + 1 <= Len(bytes) THEN bytes[i + 1] ELSE -1
    IN CASE b < 128 -> 1
         [] b \in 194..223 -> IF IsCont(bytes, i + 1) THEN 2 ELSE 0
         [] b \in 224..239 ->
                IF /\ second \in (CASE b = 224 -> 160..191 [] b = 237 -> 128..159
                                    [] OTHER -> 128..191)
                   /\ IsCont(bytes, i + 2)
                THEN 3 ELSE 0
         [] b \in 240..244 ->
                IF /\ second \in (CASE b = 240 -> 144..191 [] b = 244 -> 128..143
                                    [] OTHER -> 128..191)
                   /\ IsCont(bytes, i + 2) /\ IsCont(bytes, i + 3)
                THEN 4 ELSE 0
         [] OTHER -> 0

\* The code point of the UTF-8 sequence of n bytes that starts bytes[i].
Utf8Point(bytes, i, n) ==
    CASE n = 1 -> bytes[i]
      [] n = 2 -> (bytes[i] % 32) * 64 + (bytes[i + 1] % 64)
      [] n = 3 -> (bytes[i] % 16) * 4096 + (bytes[i + 1] % 64) * 64 + (bytes[i + 2] % 64)
      [] OTHER -> (bytes[i] % 8) * 262144 + (bytes[i + 1] % 64) * 4096
                  + (bytes[i + 2] % 64) * 64 + (bytes[i + 3] % 64)

\* bytes.decode(): strict UTF-8; [ok |-> FALSE] stands for UnicodeDecodeError.
RECURSIVE DecodeFrom(_, _, _)
DecodeFrom(bytes, i, acc) ==
    IF i > Len(bytes) THEN [ok |-> TRUE, text |-> acc]
    ELSE LET n == Utf8Len(bytes, i)
         IN IF n = 0 THEN [ok |-> FALSE, text |-> <<>>]
            ELSE DecodeFrom(bytes, i + n, Append(acc, Utf8Point(bytes, i, n)))

Decode(bytes) == DecodeFrom(bytes, 1, <<>>)

----------------------------------------------------------------------------
(* Bounds and input domains *)

\* Longest captured stderr (in bytes / characters) the environment produces.
MaxStderrLen == 2

\* A missing (falsy) argument or attribute.
None == <<>>
NoVersion == <<>>
NoError == [type |-> "none", text |-> <<>>]

\* Version objects as (major, minor).
Versions == {<<16, 0>>, <<17, 0>>}

DatabaseNames == {T("db17"), T("o'db")}
RepositoryArgs == {T("acme/addons")}
LinkedRepositories == {T("acme/linked")}
LogLevels == {"INFO", "DEBUG"}

\* Bytes a failing `pre-commit install` writes to stderr: "E", newline, and
\* the two bytes of U+00E9 in UTF-8, which are not UTF-8 apart or swapped.
StderrBytes == {69, 10, 195, 169}
\* Code points git writes to stderr: "f", space, carriage return.
StderrChars == {102, 32, 13}

RECURSIVE SeqsUpTo(_, _)
SeqsUpTo(S, n) ==
    IF n = 0 THEN {<<>>}
    ELSE LET shorter == SeqsUpTo(S, n - 1)
         IN shorter \cup {Append(s, x) : s \in {t \in shorter : Len(t) = n - 1}, x \in S}

BashStderrs == SeqsUpTo(StderrBytes, MaxStderrLen)
GitStderrs == SeqsUpTo(StderrChars, MaxStderrLen)

----------------------------------------------------------------------------
(* Module constants *)

PRE_COMMIT_REPOSITORY == T("odoo-ps/psbe-ps-tech-tools")
COPIER_ANSWERS_FILE == T(".copier-answers.yml")

\* _exclusive_arguments = [("database", "repository")]
ExclusiveArguments == {<<"database", "repository">>}

\* The database object of a command run without a database argument.
DummyDatabase == [name |-> T("[dummy]"), version |-> NoVersion, repository |-> None]

----------------------------------------------------------------------------
(* Pure helpers *)

\* str(version): "17.0" for (17, 0), "None" for None.
VersionStr(v) ==
    IF v = NoVersion THEN T("None") ELSE T(ToString(v[1])) \o T(".") \o T(ToString(v[2]))

\* self.error(text): the command error raised to the user.
CommandError(text) == [type |-> "CommandError", text |-> text]

\* An exception of a collaborator that the command does not catch.
Uncaught(type) == [type |-> type, text |-> <<>>]

\* Truthiness of self._database (a command run without a database holds a dummy).
DatabaseGiven(db) == db # DummyDatabase

\* The precondition of the command as spec.md states it ("exactly one of
\* {database, explicit repository} is supplied"): it is broken when both
\* arguments of a pair declared exclusive are supplied.  The check is not part
\* of pre-commit.py, which only declares the pair.
ExclusiveArgumentsViolated(a) ==
    \E p \in ExclusiveArguments : a[p[1]] # None /\ a[p[2]] # None

\* Mutant: the missing-repository check never fires.
NoRepositoryLinked_Never(a, db) == FALSE

\* __init__: `not self.args.repository and not self._database.repository`
NoRepositoryLinked(a, db) == a.repository = None /\ db.repository = None

\* __init__: the name handed to GitConnector.
RepositoryName(a, db) ==
    IF db.repository # None THEN db.repository ELSE a.repository

\* run: the database's stored version when there is one, else the scan's result.
ResolvedVersion(db, scanned) ==
    IF DatabaseGiven(db) /\ db.version # NoVersion THEN db.version ELSE scanned

\* Mutant: an undetermined version is not detected.
VersionMissing_Never(v) == FALSE

\* run: `if not self.version`
VersionMissing(v) == v = NoVersion

\* Mutant: the test of the answers file lost its `not`.
IsFreshInstall_Inverted(ex, ans) == ~ex \/ ans

\* _is_fresh_install: no local clone, or no answers file in it.
IsFreshInstall(ex, ans) == ~ex \/ ~ans

\* _copy_config: copier_params.
CopierParams(name, level, v) ==
    [dst_path  |-> name,
     quiet     |-> (level # "DEBUG"),
     overwrite |-> TRUE,
     data      |-> [odoo_version |-> VersionStr(v)],
     unsafe    |-> TRUE]

\* The leading blanks and tabs of a line.
RECURSIVE Margin(_)
Margin(line) ==
    IF Len(line) > 0 /\ line[1] \in {32, 9}
    THEN <<line[1]>> \o Margin(Tail(line)) ELSE <<>>

\* The longest common prefix of two texts.
RECURSIVE CommonPrefix(_, _)
CommonPrefix(a, b) ==
    IF Len(a) > 0 /\ Len(b) > 0 /\ a[1] = b[1]
    THEN <<a[1]>> \o CommonPrefix(Tail(a), Tail(b)) ELSE <<>>

\* The margin all the lines from the k-th on share with m.
RECURSIVE CommonMargin(_, _, _)
CommonMargin(lines, k, m) ==
    IF k > Len(lines) THEN m
    ELSE CommonMargin(lines, k + 1, CommonPrefix(m, Margin(lines[k])))

\* textwrap.dedent: lines of blanks and tabs only become empty, the other
\* lines lose the leading whitespace they all share.
Dedent(lines) ==
    LET clean == [i \in 1..Len(lines) |->
                     IF Margin(lines[i]) = lines[i] THEN <<>> ELSE lines[i]]
        full == SelectSeq(clean, LAMBDA l : l # <<>>)
        m == IF full = <<>> THEN <<>> ELSE CommonMargin(full, 2, Margin(full[1]))
    IN [i \in 1..Len(clean) |->
           IF clean[i] = <<>> THEN <<>> ELSE SubSeq(clean[i], Len(m) + 1, Len(clean[i]))]

\* Whitespace removed at the start of a text.
RECURSIVE LStrip(_)
LStrip(s) == IF Len(s) > 0 /\ IsSpace(s[1]) THEN LStrip(Tail(s)) ELSE s

\* Whitespace removed at the end of a text.
RECURSIVE RStrip(_)
RStrip(s) ==
    IF Len(s) > 0 /\ IsSpace(s[Len(s)]) THEN RStrip(SubSeq(s, 1, Len(s) - 1)) ELSE s

\* Lines of whitespace only removed at the start of a text.
RECURSIVE DropLeadingBlank(_)
DropLeadingBlank(lines) ==
    IF Len(lines) > 0 /\ Strip(lines[1]) = <<>>
    THEN DropLeadingBlank(Tail(lines)) ELSE lines

\* Lines of whitespace only removed at the end of a text.
RECURSIVE DropTrailingBlank(_)
DropTrailingBlank(lines) ==
    IF Len(lines) > 0 /\ Strip(lines[Len(lines)]) = <<>>
    THEN DropTrailingBlank(SubSeq(lines, 1, Len(lines) - 1))
    ELSE lines

\* str.strip() of a text given by its lines.
StripLines(lines) ==
    LET kept == DropTrailingBlank(DropLeadingBlank(lines))
    IN [i \in 1..Len(kept) |->
           LET l == IF i = 1 THEN LStrip(kept[i]) ELSE kept[i]
           IN IF i = Len(kept) THEN RStrip(l) ELSE l]

\* string.normalize_indent (odev.common.string) on the lines of the commit
\* message, as textwrap.dedent(text).strip(): the title line has no
\* indentation, so the lines after it keep theirs.
NormalizeIndent(lines) == StripLines(Dedent(lines))

\* _commit_message: the verb.
AddInstall == T("[ADD] Install")
ImpUpdate == T("[IMP] Update")
CommitAction(fresh) == IF fresh THEN AddInstall ELSE ImpUpdate

\* _commit_message: the lines of the literal, with their indentation.
Indent == T("            ")
TitleRest == T(" ") \o Backquote \o T("pre-commit") \o Backquote \o T(" configuration")
AddedLine == Indent \o T("Added automatically with [odev](https://github.com/odoo-odev/odev) using configuration templates")
FromLine == Indent \o T("from [pre-commit-template](https://github.com/odoo-ps/psbe-ps-tech-tools/tree/pre-commit-template).")
VersionLabel == Indent \o T("Odoo version: ")
SeeLine == Indent \o T("See: [pre-commit](https://github.com/odoo-ps/psbe-process/wiki/Development-common-practices#pre-commit)")

\* _commit_message: the f-string literal, line by line, then normalize_indent.
CommitMessage(fresh, v) ==
    NormalizeIndent(<<
        CommitAction(fresh) \o TitleRest,
        <<>>,
        AddedLine,
        FromLine,
        <<>>,
        VersionLabel \o VersionStr(v),
        SeeLine,
        Indent
    >>)

\* run: the verb of the closing log line.
Installed == T("installed")
Updated == T("updated")
LogVerb(fresh) == IF fresh THEN Installed ELSE Updated

LogPrefix == T("Pre-commit configuration successfully ")
LogMiddle == T(" in repository ")

\* run: the closing log line.
LogLine(fresh, name) == LogPrefix \o LogVerb(fresh) \o LogMiddle \o Repr(name)

\* The configuration error of a bad argument combination.  spec.md fixes its
\* kind (a user-facing command error) and not its wording, so it has no text.
ExclusiveArgumentsError == CommandError(<<>>)
NoRepositoryText == T("No repository linked to database ")
NoVersionText == T("Could not determine Odoo version from repository ")
IgnoringText == T("Ignoring non-existing repository ")
InstallFailedText == T("Failed to install pre-commit hooks:\n")
CommitFailedText == T("Failed to commit changes:\n")

\* _install_hooks: the error raised on bash.CalledProcessError; decoding the
\* captured stderr happens while the message is built and may itself raise.
InstallHooksError(stderr) ==
    LET decoded == Decode(stderr)
    IN IF decoded.ok THEN CommandError(InstallFailedText \o decoded.text)
       ELSE Uncaught("UnicodeDecodeError")

\* _commit_changes: the error raised on GitCommandError.
CommitError(stderr) == CommandError(CommitFailedText \o Strip(stderr))

----------------------------------------------------------------------------
(* Control flow of the with-statement and of the error paths *)

\* Mutant: a failed stash is ignored and templating goes on.
AfterStashEnter_Ignored(raised) == "templating"

\* _copy_config: `with Stash(...)`; an exception of __enter__ leaves the method.
AfterStashEnter(raised) == IF raised THEN "failed" ELSE "templating"

\* Mutant: the stash is restored by hand after the call, not on the error path.
StashAfterScope_OnlyOnSuccess(p) == IF p = NoError THEN "released" ELSE "held"

\* _copy_config: leaving the `with Stash(...)` block runs __exit__ on every path.
StashAfterScope(p) == "released"

\* Mutant: the exception of the templating call is swallowed at the scope's end.
AfterStashExit_Swallowed(p, raised) == IF raised THEN "failed" ELSE "install_hooks"

\* _copy_config / run: an exception raised in the block, or by __exit__, propagates
\* out of run; otherwise run goes on to _install_hooks.
AfterStashExit(p, raised) ==
    IF raised \/ p # NoError THEN "failed" ELSE "install_hooks"

\* _install_hooks: the CalledProcessError is re-raised as a command error.
AfterInstallHooks(raised) == IF raised THEN "failed" ELSE "git_add"

----------------------------------------------------------------------------
(* Recorded collaborator calls *)

CloneCall == [op |-> "clone"]
ScanCall(name) == [op |-> "version_from_addons", path |-> name]
StashEnterCall(raised) == [op |-> "stash_enter", raised |-> raised]
StashExitCall(raised) == [op |-> "stash_exit", raised |-> raised]
RunCopyCall(name, level, v, raised, wrote) ==
    [op |-> "run_copy", src_path |-> T("gh:") \o PRE_COMMIT_REPOSITORY,
     params |-> CopierParams(name, level, v), defaults |-> FALSE, raised |-> raised,
     wrote_answers |-> wrote]
RunUpdateCall(name, level, v, raised) ==
    [op |-> "run_update", params |-> CopierParams(name, level, v),
     answers_file |-> COPIER_ANSWERS_FILE, defaults |-> TRUE, raised |-> raised]
InstallCommand == T("GIT_CONFIG=/dev/null pre-commit install")
InstallCall(raised, stderr) ==
    [op |-> "bash.execute", command |-> InstallCommand,
     raised |-> raised, stderr |-> stderr]
GitAddCall(raised, stderr) ==
    [op |-> "git.add", path |-> T("."), raised |-> raised, stderr |-> stderr]
GitCommitCall(message, raised, stderr) ==
    [op |-> "git.commit", flag |-> T("-m"), message |-> message,
     raised |-> raised, stderr |-> stderr]

----------------------------------------------------------------------------
(* Initial states: the command line, the database record, the local disk *)

Databases(name) ==
    IF name = None THEN {DummyDatabase}
    ELSE [name : {name}, version : Versions \cup {NoVersion},
          repository : LinkedRepositories \cup {None}]

Init ==
    /\ args \in [database : DatabaseNames \cup {None},
                 repository : RepositoryArgs \cup {None}]
    /\ database \in Databases(args.database)
    /\ logLevel \in LogLevels
    /\ exists \in BOOLEAN
    /\ answers \in {a \in BOOLEAN : a => exists}
    /\ start = [exists |-> exists, answers |-> answers]
    /\ repository = None
    /\ version = NoVersion
    /\ pc = "init"
    /\ stash = "none"
    /\ pending = NoError
    /\ calls = <<>>
    /\ evals = <<>>
    /\ error = NoError
    /\ logged = <<>>

Fail(e) == pc' = "failed" /\ error' = e

----------------------------------------------------------------------------
(* Argument validation, as spec.md states it: a run that supplies both a     *)
(* database and a repository fails with a configuration error before any    *)
(* side effect.  pre-commit.py declares the pair (_exclusive_arguments) and  *)
(* holds no code for the check; it is placed before the body of __init__.    *)

CheckExclusiveArguments ==
    /\ pc = "init"
    /\ IF ExclusiveArgumentsViolated(args)
       THEN Fail(ExclusiveArgumentsError)
       ELSE pc' = "construct" /\ UNCHANGED error
    /\ UNCHANGED <<args, database, logLevel, repository, exists, answers,
                   version, stash, pending, calls, evals, logged, start>>

----------------------------------------------------------------------------
(* PreCommit.__init__ *)

Construct ==
    /\ pc = "construct"
    /\ IF NoRepositoryLinked(args, database)
       THEN /\ Fail(CommandError(NoRepositoryText \o Repr(database.name)))
            /\ UNCHANGED repository
       ELSE /\ repository' = RepositoryName(args, database)
            /\ pc' = "run"
            /\ UNCHANGED error
    /\ UNCHANGED <<args, database, logLevel, exists, answers, version, stash,
                   pending, calls, evals, logged, start>>

----------------------------------------------------------------------------
(* PreCommit.run *)

\* self._repository.clone(): nothing to do for an existing clone; otherwise the
\* clone succeeds (with or without an answers file in the tree), raises, or
\* returns without a local repository.
Clone ==
    /\ pc = "run"
    /\ calls' = Append(calls, CloneCall)
    /\ IF exists
       THEN pc' = "version" /\ UNCHANGED <<exists, answers, error>>
       ELSE \E outcome \in {"cloned", "raised", "missing"}, tree \in BOOLEAN :
              CASE outcome = "cloned" ->
                     /\ exists' = TRUE /\ answers' = tree
                     /\ pc' = "version" /\ UNCHANGED error
                [] outcome = "raised" ->
                     /\ tree = FALSE
                     /\ Fail(Uncaught("ConnectorError"))
                     /\ UNCHANGED <<exists, answers>>
                [] outcome = "missing" ->
                     /\ tree = FALSE
                     /\ pc' = "version" /\ UNCHANGED <<exists, answers, error>>
    /\ UNCHANGED <<args, database, logLevel, repository, version, stash,
                   pending, evals, logged, start>>

\* The version: the database's, else the scan of the clone; fatal when none.
ResolveVersion ==
    /\ pc = "version"
    /\ \E scanned \in (IF exists THEN Versions ELSE {}) \cup {NoVersion} :
         LET stored == DatabaseGiven(database) /\ database.version # NoVersion
             v == ResolvedVersion(database, scanned)
         IN /\ stored => scanned = NoVersion
            /\ version' = v
            /\ calls' = IF stored THEN calls ELSE Append(calls, ScanCall(repository))
            /\ IF VersionMissing(v)
               THEN Fail(CommandError(NoVersionText \o Repr(repository)))
               ELSE pc' = "copy_config" /\ UNCHANGED error
    /\ UNCHANGED <<args, database, logLevel, repository, exists, answers, stash,
                   pending, evals, logged, start>>

----------------------------------------------------------------------------
(* PreCommit._copy_config *)

\* `if not self._repository.repository`: there is no local repository to template.
CopyConfigNoRepository ==
    /\ pc = "copy_config"
    /\ ~exists
    /\ Fail(CommandError(IgnoringText \o Repr(repository)))
    /\ UNCHANGED <<args, database, logLevel, repository, exists, answers, version,
                   stash, pending, calls, evals, logged, start>>

\* `with Stash(self._repository.repository):` entering the scope.
StashEnter ==
    /\ pc = "copy_config"
    /\ exists
    /\ \E raised \in BOOLEAN :
         /\ calls' = Append(calls, StashEnterCall(raised))
         /\ stash' = IF raised THEN stash ELSE "held"
         /\ pc' = AfterStashEnter(raised)
         /\ error' = IF raised THEN Uncaught("GitCommandError") ELSE error
    /\ UNCHANGED <<args, database, logLevel, repository, exists, answers, version,
                   pending, evals, logged, start>>

\* The fresh-install branch: run_copy; the template may write its answers file,
\* and the call may raise after having written files.
RunCopy ==
    /\ pc = "templating"
    /\ IsFreshInstall(exists, answers)
    /\ evals' = Append(evals, TRUE)
    /\ \E raised \in BOOLEAN, wrote \in BOOLEAN :
         /\ calls' = Append(calls, RunCopyCall(repository, logLevel, version, raised, wrote))
         /\ answers' = (answers \/ wrote)
         /\ pending' = IF raised THEN Uncaught("CopierError") ELSE NoError
    /\ pc' = "stash_exit"
    /\ UNCHANGED <<args, database, logLevel, repository, exists, version, stash,
                   error, logged, start>>

\* The update branch: run_update from the existing answers file.
RunUpdate ==
    /\ pc = "templating"
    /\ ~IsFreshInstall(exists, answers)
    /\ evals' = Append(evals, FALSE)
    /\ \E raised \in BOOLEAN :
         /\ calls' = Append(calls, RunUpdateCall(repository, logLevel, version, raised))
         /\ pending' = IF raised THEN Uncaught("CopierError") ELSE NoError
    /\ pc' = "stash_exit"
    /\ UNCHANGED <<args, database, logLevel, repository, exists, answers, version,
                   stash, error, logged, start>>

\* Leaving the `with Stash(...)` block, normally or with the pending exception.
StashExit ==
    /\ pc = "stash_exit"
    /\ \E raised \in BOOLEAN :
         LET after == StashAfterScope(pending)
         IN /\ stash' = after
            /\ calls' = IF after = "released"
                        THEN Append(calls, StashExitCall(raised)) ELSE calls
            /\ pc' = AfterStashExit(pending, raised)
            /\ error' = IF raised THEN Uncaught("GitCommandError")
                        ELSE IF pc' = "failed" THEN pending ELSE error
    /\ pending' = NoError
    /\ UNCHANGED <<args, database, logLevel, repository, exists, answers, version,
                   evals, logged, start>>

----------------------------------------------------------------------------
(* PreCommit._install_hooks *)

InstallHooks ==
    /\ pc = "install_hooks"
    /\ \E raised \in BOOLEAN, stderr \in BashStderrs :
         /\ ~raised => stderr = <<>>
         /\ calls' = Append(calls, InstallCall(raised, stderr))
         /\ pc' = AfterInstallHooks(raised)
         /\ error' = IF raised THEN InstallHooksError(stderr) ELSE error
    /\ UNCHANGED <<args, database, logLevel, repository, exists, answers, version,
                   stash, pending, evals, logged, start>>

----------------------------------------------------------------------------
(* PreCommit._commit_changes *)

\* `assert self._repository.repository` and git.add(".")
GitAdd ==
    /\ pc = "git_add"
    /\ IF ~exists
       THEN Fail(Uncaught("AssertionError")) /\ UNCHANGED calls
       ELSE \E raised \in BOOLEAN, stderr \in GitStderrs :
              /\ ~raised => stderr = <<>>
              /\ calls' = Append(calls, GitAddCall(raised, stderr))
              /\ pc' = IF raised THEN "failed" ELSE "git_commit"
              /\ error' = IF raised THEN CommitError(stderr) ELSE error
    /\ UNCHANGED <<args, database, logLevel, repository, exists, answers, version,
                   stash, pending, evals, logged, start>>

\* git.commit("-m", self._commit_message()): the message is computed here.
GitCommit ==
    /\ pc = "git_commit"
    /\ LET fresh == IsFreshInstall(exists, answers)
       IN /\ evals' = Append(evals, fresh)
          /\ \E raised \in BOOLEAN, stderr \in GitStderrs :
               /\ ~raised => stderr = <<>>
               /\ calls' = Append(calls,
                                  GitCommitCall(CommitMessage(fresh, version), raised, stderr))
               /\ pc' = IF raised THEN "failed" ELSE "log"
               /\ error' = IF raised THEN CommitError(stderr) ELSE error
    /\ UNCHANGED <<args, database, logLevel, repository, exists, answers, version,
                   stash, pending, logged, start>>

----------------------------------------------------------------------------
(* PreCommit.run: the closing log line *)

LogInfo ==
    /\ pc = "log"
    /\ LET fresh == IsFreshInstall(exists, answers)
       IN /\ evals' = Append(evals, fresh)
          /\ logged' = LogLine(fresh, repository)
    /\ pc' = "done"
    /\ UNCHANGED <<args, database, logLevel, repository, exists, answers, version,
                   stash, pending, calls, error, start>>

----------------------------------------------------------------------------

Next ==
    \/ CheckExclusiveArguments
    \/ Construct
    \/ Clone
    \/ ResolveVersion
    \/ CopyConfigNoRepository
    \/ StashEnter
    \/ RunCopy
    \/ RunUpdate
    \/ StashExit
    \/ InstallHooks
    \/ GitAdd
    \/ GitCommit
    \/ LogInfo

Spec == Init /\ [][Next]_vars

----------------------------------------------------------------------------
(* Vocabulary of the properties *)

StartsWith(s, p) == Len(s) >= Len(p) /\ SubSeq(s, 1, Len(p)) = p

Contains(s, p) ==
    \E k \in 1..(Len(s) + 1) : k + Len(p) - 1 <= Len(s) /\ SubSeq(s, k, k + Len(p) - 1) = p

Idx(ops) == {i \in 1..Len(calls) : calls[i].op \in ops}

Templating == {"run_copy", "run_update"}
AfterTemplating == {"bash.execute", "git.add", "git.commit"}
AfterClone == {"stash_enter", "stash_exit"} \cup Templating \cup AfterTemplating

InstallTitle == T("[ADD] Install ") \o Backquote \o T("pre-commit") \o Backquote \o T(" configuration")
UpdateTitle == T("[IMP] Update ") \o Backquote \o T("pre-commit") \o Backquote \o T(" configuration")
OdooVersion17 == T("Odoo version: 17.0")
SuccessfullyInstalled == T("successfully installed")
SuccessfullyUpdated == T("successfully updated")

----------------------------------------------------------------------------
(* C1 *)

\* C1: in a finished run that started without a local clone, found no answers
\* file when templating began and resolved the version (17, 0), run_copy was
\* called with data {odoo_version: "17.0"}, then the hook installation, then
\* the commit, and the committed message starts with the "[ADD] Install" title
\* and has the line "Odoo version: 17.0".
C1_FreshInstallEndToEnd ==
    (pc = "done" /\ ~start.exists /\ evals[1] /\ version = <<17, 0>>) =>
        \E i \in Idx({"run_copy"}), j \in Idx({"bash.execute"}), k \in Idx({"git.commit"}) :
            /\ i < j /\ j < k
            /\ calls[i].params.data = [odoo_version |-> T("17.0")]
            /\ StartsWith(calls[k].message[1], InstallTitle)
            /\ \E n \in 1..Len(calls[k].message) :
                   Contains(calls[k].message[n], OdooVersion17)

----------------------------------------------------------------------------
(* C2 *)

\* C2: all evaluations of the fresh-install predicate within one run agree, and
\* the title of the commit message matches the templating call that ran.
C2_ModeFixedForTheRun ==
    /\ \A i, j \in 1..Len(evals) : evals[i] = evals[j]
    /\ \A k \in Idx({"git.commit"}) :
           /\ Idx({"run_copy"}) # {} => StartsWith(calls[k].message[1], InstallTitle)
           /\ Idx({"run_update"}) # {} => StartsWith(calls[k].message[1], UpdateTitle)
    /\ pc = "done" =>
           /\ Idx({"run_copy"}) # {} => Contains(logged, SuccessfullyInstalled)
           /\ Idx({"run_update"}) # {} => Contains(logged, SuccessfullyUpdated)

----------------------------------------------------------------------------
(* C3 *)

\* C3: a run that started without a local clone never calls run_update, calls
\* run_copy with defaults=false when it templates, and commits with the
\* "[ADD] Install" title, whatever the cloned tree holds.
C3_ClonedMeansFreshInstall ==
    ~start.exists =>
        /\ Idx({"run_update"}) = {}
        /\ \A i \in Idx({"run_copy"}) : calls[i].defaults = FALSE
        /\ \A k \in Idx({"git.commit"}) : StartsWith(calls[k].message[1], InstallTitle)

----------------------------------------------------------------------------
(* C4 *)

PastTemplating == {"stash_exit", "install_hooks", "git_add", "git_commit", "log", "done"}

\* C4: a run on an existing clone that holds an answers file never calls
\* run_copy; once templating has run, it was run_update with the answers file
\* and defaults=true; and every commit message has the "[IMP] Update" title.
C4_UpdateBranch ==
    (start.exists /\ start.answers) =>
        /\ Idx({"run_copy"}) = {}
        /\ pc \in PastTemplating => Idx({"run_update"}) # {}
        /\ \A i \in Idx({"run_update"}) :
               calls[i].answers_file = COPIER_ANSWERS_FILE /\ calls[i].defaults = TRUE
        /\ \A k \in Idx({"git.commit"}) : StartsWith(calls[k].message[1], UpdateTitle)

\* An update run that reached its end and committed.
C4_Witness ==
    /\ start.exists /\ start.answers /\ pc = "done"
    /\ Idx({"run_update"}) # {} /\ Idx({"git.commit"}) # {}

----------------------------------------------------------------------------
(* C5 *)

BothSupplied == args.database # None /\ args.repository # None
NothingLinked ==
    args.database # None /\ args.repository = None /\ database.repository = None

\* C5: when both a database and a repository are supplied, or the database has
\* no linked repository and no repository is supplied, the command ends before
\* run() with a command error, no collaborator was called and the disk is as
\* it was.
C5_ConfigurationErrorFirst ==
    ((BothSupplied \/ NothingLinked) /\ pc \notin {"init", "construct"}) =>
        /\ pc = "failed"
        /\ error.type = "CommandError"
        /\ calls = <<>>
        /\ stash = "none"
        /\ exists = start.exists /\ answers = start.answers

\* A database without linked repository was rejected.
C5_Witness ==
    /\ NothingLinked /\ pc = "failed"
    /\ error = CommandError(NoRepositoryText \o Repr(database.name))

----------------------------------------------------------------------------
(* C6 *)

ResolutionFailed == Idx({"version_from_addons"}) # {} /\ version = NoVersion

\* C6: when neither the database nor the scan of the clone gives a version, the
\* run has ended with a command error right after the clone and the scan: no
\* stash, templating, hook installation or commit call was made.
C6_NoVersionAborts ==
    ResolutionFailed =>
        /\ pc = "failed"
        /\ error = CommandError(NoVersionText \o Repr(repository))
        /\ calls = <<CloneCall, ScanCall(repository)>>
        /\ Idx(AfterClone) = {}
        /\ stash = "none"

\* The scan of an existing clone found no version.
C6_Witness == ResolutionFailed /\ exists /\ pc = "failed"

----------------------------------------------------------------------------
(* C7 *)

\* C7: when `pre-commit install` fails, the run has ended with a command error
\* whose text holds the text of the captured stderr, it was the last call of
\* the run (no git add, no git commit, nothing undone) and the files written
\* by the templating step are still there.
C7_HookFailureAborts ==
    \A i \in Idx({"bash.execute"}) :
        calls[i].raised =>
            /\ pc = "failed"
            /\ i = Len(calls)
            /\ Idx({"git.add", "git.commit"}) = {}
            /\ \A j \in Idx({"run_copy"}) : calls[j].wrote_answers => answers
            /\ error.type = "CommandError"
            /\ Decode(calls[i].stderr).ok
            /\ error.text = InstallFailedText \o Decode(calls[i].stderr).text

----------------------------------------------------------------------------
(* C8 *)

\* C8: a git commit call is made only with a resolved, non-empty version and
\* after the stash scope was entered successfully; no commit follows a failed
\* stash.
C8_CommitNeedsVersionAndStash ==
    \A k \in Idx({"git.commit"}) :
        /\ version # NoVersion
        /\ Len(VersionStr(version)) > 0 /\ VersionStr(version) # T("None")
        /\ \E j \in Idx({"stash_enter"}) : j < k /\ ~calls[j].raised
        /\ \A j \in Idx({"stash_enter"}) : ~calls[j].raised

\* A commit call was made.
C8_Witness == Idx({"git.commit"}) # {} /\ pc = "done"

----------------------------------------------------------------------------
(* C9 *)

\* C9: the stash is held only while templating; once the scope was entered and
\* left (by return or by exception) it has been released; every templating call
\* lies inside the scope; and every hook-install or git call comes after the
\* release.
C9_StashScoped ==
    /\ stash = "held" => pc \in {"templating", "stash_exit"}
    /\ (Idx({"stash_enter"}) # {} /\ pc \notin {"templating", "stash_exit"}) =>
           \/ stash = "released" /\ Idx({"stash_exit"}) # {}
           \/ stash = "none" /\ (\A j \in Idx({"stash_enter"}) : calls[j].raised)
    /\ \A i \in Idx(Templating) :
           /\ \E j \in Idx({"stash_enter"}) : j < i /\ ~calls[j].raised
           /\ \A j \in Idx({"stash_exit"}) : i < j
    /\ \A i \in Idx(AfterTemplating) : \E j \in Idx({"stash_exit"}) : j < i

\* The templating call raised and the run ended with the stash released.
C9_Witness ==
    /\ pc = "failed" /\ stash = "released"
    /\ \E i \in Idx(Templating) : calls[i].raised

----------------------------------------------------------------------------
(* C10 *)

\* C10 as claimed: when the templating call raised and the stash was released
\* without error, the run goes on to the hook installation.
C10_ProceedsToHooks ==
    [][(pc = "stash_exit" /\ pending # NoError /\ ~calls'[Len(calls')].raised)
          => (stash' = "released" /\ pc' = "install_hooks")]_vars

\* C10 amended: when the templating call raised, the stash is released, the
\* exception leaves run (the run ends failed with it, or with the error of the
\* release), no hook-install or git call is made, and what the templating
\* call wrote stays on disk.
C10_TemplatingFailureAborts ==
    \A i \in Idx(Templating) :
        calls[i].raised =>
            /\ pc \in {"stash_exit", "failed"}
            /\ Idx(AfterTemplating) = {}
            /\ pc = "failed" =>
                   /\ stash = "released"
                   /\ calls[Len(calls)].op = "stash_exit"
                   /\ error = IF calls[Len(calls)].raised
                              THEN Uncaught("GitCommandError") ELSE Uncaught("CopierError")
            /\ (calls[i].op = "run_copy" /\ calls[i].wrote_answers) => answers

\* run_copy raised after writing the answers file; the run ended with its error.
C10_Witness ==
    /\ pc = "failed" /\ error = Uncaught("CopierError") /\ answers
    /\ \E i \in Idx({"run_copy"}) : calls[i].raised /\ calls[i].wrote_answers

====
